---- MODULE Spec2Model ----
(***************************************************************************)
(* Model of the basalpay-p2p payment core: the payment ledger kept in      *)
(* Redis, the reconciliation engine (setupTransactionMonitor /             *)
(* checkTransactions / processPayment / processUsdtTransfer), the expiry   *)
(* job (setupExpiryJob), the cancel_payment handler, and the MB Bank       *)
(* session client (BankService.login / mbRequest / getTransactionsHistory).*)
(*                                                                         *)
(* The process is single-threaded Node.js: a handler runs until its next   *)
(* `await`, so every action below is one await-delimited piece of one      *)
(* handler (one Redis command, one HTTP call), and the handlers interleave *)
(* at those points only.                                                   *)
(***************************************************************************)
EXTENDS Integers, Sequences, FiniteSets, TLC

VARIABLES
    \* ---- ledger (Redis) ----
    payment,        \* hash payment:{id}
    pendingSet,     \* set payments:pending
    completedSet,   \* set payments:completed
    expirySet,      \* sorted set payments:expiry (score = the payment's expiresAt)
    activePayment,  \* string user:{id}:activePayment
    \* ---- environment ----
    now,            \* Date.now()
    bankTxs,        \* the bank's transaction history of the last hour
    \* ---- handlers in flight ----
    cyc,            \* the setInterval callback invocations (reconciliation cycles)
    rp,             \* the cron callback (expiry job)
    cn,             \* the cancel_payment action handler
    \* ---- history of what was done ----
    transfers,      \* per payment: number of basalPayService.transferUsdt calls
    reaped,         \* payments the expiry job has set to expired
    notices,        \* the messages sent to the owners: <<kind, payment>>
    faults,         \* Redis failures so far
    mon,            \* setupTransactionMonitor: consecutiveErrors, the timer, alerts sent
    \* ---- BankService (SpecBank) ----
    sessionId,      \* BankService.sessionId (0: not set)
    serverSession,  \* the last session id the bank issued
    call,           \* the calls of BankService methods in flight
    \* ---- pure-function harnesses (SpecMatch, SpecDates) ----
    mIn, mOut, dIn, dOut

ledgerVars == <<payment, pendingSet, completedSet, expirySet, activePayment>>
engineVars == <<now, bankTxs, cyc, rp, cn, transfers, reaped, notices, faults,
               mon>>
bankVars   == <<sessionId, serverSession, call>>
pureVars   == <<mIn, mOut, dIn, dOut>>
vars == <<ledgerVars, engineVars, bankVars, pureVars>>

(***************************************************************************)
(* Bounds of the model.                                                    *)
(***************************************************************************)
MaxTime    == 3   \* the clock runs 1..MaxTime
MaxTransfers == 2 \* transferUsdt calls counted per payment
MaxFaults  == 1   \* Redis write failures swallowed by RedisHelper
MaxTxs     == 1   \* bank credits inside the lookback window
ExpiryTicks == 1  \* Config.payment.expiryMinutes, in clock ticks
MaxErrors  == 6   \* consecutiveErrors is followed up to MaxErrors
MaxAlerts  == 2   \* alerts to the admin that are counted
MaxLoginAttempts == 6   \* login() invocations followed in one chain of retries
MaxRelogins == 2        \* session renewals followed in one mbRequest call
MaxSessions == 2        \* session ids the bank issues

Payments == {"p1", "p2"}
Users    == {"u1", "u2"}
Cycles   == {1, 2}
NoPayment == "none"

(***************************************************************************)
(* Strings are sequences of one-character strings.                         *)
(***************************************************************************)
DigitChars == <<"0", "1", "2", "3", "4", "5", "6", "7", "8", "9">>

IsDigit(ch) == \E i \in 1..10 : DigitChars[i] = ch

DigitVal(ch) == (CHOOSE i \in 1..10 : DigitChars[i] = ch) - 1

\* Number.prototype.toString for a non-negative integer (how intake and the bank
\* write amounts).
RECURSIVE DecimalString(_)
DecimalString(n) ==
    IF n < 10 THEN <<DigitChars[n + 1]>>
    ELSE Append(DecimalString(n \div 10), DigitChars[(n % 10) + 1])

\* Length of the longest prefix of s made of digits.
RECURSIVE DigitPrefixLen(_)
DigitPrefixLen(s) ==
    IF s = <<>> \/ ~IsDigit(Head(s)) THEN 0 ELSE 1 + DigitPrefixLen(Tail(s))

RECURSIVE DigitsValue(_, _)
DigitsValue(s, n) ==
    IF n = 0 THEN 0 ELSE DigitsValue(s, n - 1) * 10 + DigitVal(s[n])

\* JavaScript parseInt(s): an optional sign, then the longest run of digits;
\* NaN when there is no digit.
ParseInt(s) ==
    LET neg  == s # <<>> /\ Head(s) = "-"
        body == IF s # <<>> /\ Head(s) \in {"-", "+"} THEN Tail(s) ELSE s
        k    == DigitPrefixLen(body)
    IN  IF k = 0 THEN [nan |-> TRUE, val |-> 0]
        ELSE [nan |-> FALSE,
              val |-> IF neg THEN 0 - DigitsValue(body, k) ELSE DigitsValue(body, k)]

\* String.prototype.includes
Includes(s, sub) ==
    \E i \in 0..(Len(s) - Len(sub)) :
        \A j \in 1..Len(sub) : s[i + j] = sub[j]

(***************************************************************************)
(* Matching (checkTransactions / processPayment).                          *)
(***************************************************************************)
Tolerance == 1000                  \* "1000 VND tolerance"
RequestedVND == 260100             \* amountVND of the modelled payments

Abs(x) == IF x < 0 THEN 0 - x ELSE x

\* tx.creditAmount && parseInt(tx.creditAmount) > 0
IsCredit(tx) ==
    /\ tx.creditAmount # <<>>
    /\ ~ParseInt(tx.creditAmount).nan
    /\ ParseInt(tx.creditAmount).val > 0

\* Math.abs(txAmount - amountVND) <= 1000
AmountMatchesStrict(txAmount, amountVND) == Abs(txAmount - amountVND) < Tolerance
AmountMatches(txAmount, amountVND) == Abs(txAmount - amountVND) <= Tolerance

\* tx.transactionDesc && tx.transactionDesc.includes(memo)
HasMemoAnyDesc(tx, memo) == tx.transactionDesc # <<>>
HasMemo(tx, memo) == tx.transactionDesc # <<>> /\ Includes(tx.transactionDesc, memo)

\* The predicate handed to creditTransactions.find
TxMatches(tx, memo, amountVND) ==
    LET txAmount == ParseInt(IF tx.creditAmount # <<>> THEN tx.creditAmount ELSE <<"0">>)
    IN  IF txAmount.nan THEN FALSE
        ELSE HasMemo(tx, memo) /\ AmountMatches(txAmount.val, amountVND)

\* Array.prototype.filter
RECURSIVE FilterCredit(_)
FilterCredit(txs) ==
    IF txs = <<>> THEN <<>>
    ELSE IF IsCredit(Head(txs)) THEN <<Head(txs)>> \o FilterCredit(Tail(txs))
         ELSE FilterCredit(Tail(txs))

\* Array.prototype.sort with (a, b) => dateB - dateA: stable, most recent first.
RECURSIVE InsertByDate(_, _)
InsertByDate(tx, sorted) ==
    IF sorted = <<>> THEN <<tx>>
    ELSE IF Head(sorted).transactionDate >= tx.transactionDate
         THEN <<Head(sorted)>> \o InsertByDate(tx, Tail(sorted))
         ELSE <<tx>> \o sorted

RECURSIVE SortByDateDesc(_)
SortByDateDesc(txs) ==
    IF txs = <<>> THEN <<>>
    ELSE InsertByDate(txs[Len(txs)], SortByDateDesc(SubSeq(txs, 1, Len(txs) - 1)))

CreditTransactions(transactions) == SortByDateDesc(FilterCredit(transactions))

LastMatch(txs, memo, amountVND) ==
    IF \E i \in 1..Len(txs) : TxMatches(txs[i], memo, amountVND)
    THEN CHOOSE i \in 1..Len(txs) :
            /\ TxMatches(txs[i], memo, amountVND)
            /\ \A j \in (i + 1)..Len(txs) : ~TxMatches(txs[j], memo, amountVND)
    ELSE 0

\* Array.prototype.find: index of the first element that satisfies the predicate, 0
\* when there is none.
FirstMatch(txs, memo, amountVND) ==
    IF \E i \in 1..Len(txs) : TxMatches(txs[i], memo, amountVND)
    THEN CHOOSE i \in 1..Len(txs) :
            /\ TxMatches(txs[i], memo, amountVND)
            /\ \A j \in 1..(i - 1) : ~TxMatches(txs[j], memo, amountVND)
    ELSE 0

(***************************************************************************)
(* The data of the ledger model.                                           *)
(***************************************************************************)
Memos == {<<"1", "2">>, <<"2", "1">>}

\* The payments intake creates: p1 first, with memo 12; then p2 with either memo
\* (the same memo as p1 is a memo collision). Both belong to u1; u2 owns none.
PaymentChoices ==
    {<<"u1", "p1", <<"1", "2">>>>} \cup
    {<<"u1", "p2", memo>> : memo \in Memos}

\* The credits the bank may report: exact amount, 1200 short (outside the
\* tolerance), 1000 over (on the edge of the tolerance).
CandidateTxs ==
    { [refNo |-> "FT1", transactionDesc |-> <<"x", "1", "2">>,
       creditAmount |-> DecimalString(RequestedVND), transactionDate |-> 1],
      [refNo |-> "FT2", transactionDesc |-> <<"1", "2", "x">>,
       creditAmount |-> DecimalString(RequestedVND - 1200), transactionDate |-> 2],
      [refNo |-> "FT3", transactionDesc |-> <<"2", "1">>,
       creditAmount |-> DecimalString(RequestedVND + Tolerance), transactionDate |-> 2] }

\* What getTransactionsHistory answers for the last hour: up to MaxTxs of the
\* candidate credits, in any order.
Histories(max) ==
    {h \in UNION {[1..n -> CandidateTxs] : n \in 0..max} :
        \A i, j \in DOMAIN h : i # j => h[i] # h[j]}

HistoryChoices == Histories(MaxTxs)

NoRecord ==
    [status |-> "none", userId |-> "", memo |-> <<>>, amountVND |-> <<>>,
     expiresAt |-> 0, usdtTransactionId |-> 0, transactionRef |-> "",
     error |-> ""]

IdleCycle ==
    [pc |-> "idle", txs |-> <<>>, queue |-> {}, cur |-> NoPayment,
     usdt |-> 0, ref |-> "", newId |-> 0, err |-> "", failed |-> {},
     recipient |-> "", wallet |-> [ok |-> FALSE, balance |-> <<>>]]

IdleMonitor == [errors |-> 0, paused |-> FALSE, alerts |-> 0]

IdleReaper == [pc |-> "idle", queue |-> {}, cur |-> NoPayment]

IdleCancel == [pc |-> "idle", cur |-> NoPayment, user |-> ""]

(***************************************************************************)
(* RedisHelper                                                             *)
(***************************************************************************)
\* updatePaymentStatus: one HSET of status (and the additional fields); a Redis
\* error is caught, logged and answered with false, and no caller reads the answer.
\* `ok` is whether the HSET took effect.
UpdatePaymentStatusIgnoringFields(p, status, fields, ok) ==
    /\ (~ok) => faults < MaxFaults
    /\ faults' = IF ok THEN faults ELSE faults + 1
    /\ payment' = IF ok THEN [payment EXCEPT ![p].status = status] ELSE payment

UpdatePaymentStatus(p, status, fields, ok) ==
    /\ (~ok) => faults < MaxFaults
    /\ faults' = IF ok THEN faults ELSE faults + 1
    /\ payment' =
        IF ok
        THEN [payment EXCEPT ![p] =
                [f \in DOMAIN payment[p] |->
                    IF f = "status" THEN status
                    ELSE IF f \in DOMAIN fields THEN fields[f]
                    ELSE payment[p][f]]]
        ELSE payment

NoFields == [x \in {} |-> 0]

\* A Redis command other than the HSET of updatePaymentStatus: `ok` is whether it
\* was executed.
Command(ok) ==
    /\ (~ok) => faults < MaxFaults
    /\ faults' = IF ok THEN faults ELSE faults + 1

\* getExpiredPayments: ZRANGEBYSCORE payments:expiry 0 now
ExpiredPayments == {p \in expirySet : payment[p].expiresAt <= now}

(***************************************************************************)
(* Intake (generatePaymentInfo): HSET payment, ZADD expiry, SADD pending,  *)
(* SET activePayment.                                                      *)
(***************************************************************************)
CreatePayment(u, p, memo) ==
    /\ payment[p].status = "none"
    /\ p = "p2" => payment["p1"].status # "none"
    /\ payment' = [payment EXCEPT ![p] =
            [status |-> "pending", userId |-> u, memo |-> memo,
             amountVND |-> DecimalString(RequestedVND),
             expiresAt |-> now + ExpiryTicks,
             usdtTransactionId |-> 0, transactionRef |-> "", error |-> ""]]
    /\ expirySet' = expirySet \cup {p}
    /\ pendingSet' = pendingSet \cup {p}
    /\ activePayment' = [activePayment EXCEPT ![u] = p]
    /\ UNCHANGED <<completedSet, engineVars, bankVars, pureVars>>

(***************************************************************************)
(* Environment: the clock.                                                 *)
(***************************************************************************)
AdvanceTime ==
    /\ now < MaxTime
    /\ now' = now + 1
    /\ UNCHANGED <<ledgerVars, bankTxs, cyc, rp, cn, transfers, reaped, notices,
                   faults, mon, bankVars, pureVars>>

(***************************************************************************)
(* setupTransactionMonitor / checkTransactions / processPayment            *)
(***************************************************************************)
\* What the for loop of checkTransactions does after one payment is handled
\* (`failed`: the payments of this cycle whose handling threw).
NextPaymentAborting(c, q) ==
    IF q = {} \/ cyc[c].failed # {} THEN IdleCycle
    ELSE [IdleCycle EXCEPT !.pc = "read", !.txs = cyc[c].txs, !.queue = q,
                           !.failed = cyc[c].failed]

NextPayment(c, q) ==
    IF q = {} THEN IdleCycle
    ELSE [IdleCycle EXCEPT !.pc = "read", !.txs = cyc[c].txs, !.queue = q,
                           !.failed = cyc[c].failed]

cycleFrame == <<now, bankTxs, rp, cn, reaped, notices, bankVars, pureVars>>

MAX_CONSECUTIVE_ERRORS == 5

\* The timer callback after checkTransactions: when it has returned (the cycle is
\* back to idle), consecutiveErrors = 0.
Returned(c) ==
    mon' = IF cyc'[c].pc = "idle" THEN [mon EXCEPT !.errors = 0] ELSE mon

\* utils/time-helper.ts: the operating window, from the UTC hour of the clock.
HoursPerDay   == 24
VietnamOffset == 7
OpeningHour   == 9
ClosingHour   == 24

\* now.getUTCHours(), for a time counted in hours.
UTCHour(t) == t % HoursPerDay

VietnamHours(h) == (h + VietnamOffset) % HoursPerDay

IsWithinOperatingHoursAlways(h) == TRUE

IsWithinOperatingHours(h) ==
    VietnamHours(h) >= OpeningHour /\ VietnamHours(h) < ClosingHour

\* The UTC hours at which the timer fires in the runs of the engine: the last
\* hour before and the first hour after each end of the window.
TickHours == {1, 2, 16, 17}

\* setInterval fires at UTC hour h: outside the operating hours the callback
\* returns at once; otherwise it starts checkTransactions. Nothing tells it
\* whether an earlier invocation is still running. (Slots are used lowest first.)
TimerTick(c, h) ==
    /\ ~mon.paused
    /\ cyc[c].pc = "idle"
    /\ \A d \in Cycles : d < c => cyc[d].pc # "idle"
    /\ IF IsWithinOperatingHours(h)
       THEN /\ cyc' = [cyc EXCEPT ![c].pc = "fetch"]
            /\ UNCHANGED <<ledgerVars, transfers, faults, mon, cycleFrame>>
       ELSE UNCHANGED vars

\* What the callback does after its catch block has counted a failed cycle:
\* at MAX_CONSECUTIVE_ERRORS or more it alerts the admin, otherwise it returns.
AfterFailure(c, m) ==
    [IdleCycle EXCEPT !.pc = IF m.errors >= MAX_CONSECUTIVE_ERRORS THEN "alert" ELSE "idle"]

\* getBalance / getTransactionsHistory throw, or the account is not in the
\* balance list: checkTransactions throws and the callback's catch counts the
\* failure. `gw200`: the message of the error contains "GW200".
FetchFailsQuietly(c, gw200) ==
    /\ cyc[c].pc \in {"fetch", "history"}
    /\ cyc' = [cyc EXCEPT ![c] = IdleCycle]
    /\ Returned(c)
    /\ UNCHANGED <<ledgerVars, transfers, faults, cycleFrame>>

FetchFails(c, gw200) ==
    /\ cyc[c].pc \in {"fetch", "history"}
    /\ mon.errors < MaxErrors
    /\ LET m == [mon EXCEPT !.errors = mon.errors + 1]
       IN  /\ mon' = m
           /\ cyc' = [cyc EXCEPT ![c] =
                  IF gw200 THEN [IdleCycle EXCEPT !.pc = "relogin"]
                  ELSE AfterFailure(c, m)]
    /\ UNCHANGED <<ledgerVars, transfers, faults, cycleFrame>>

\* await bankService.login() in the catch: a successful login stores the
\* session id the bank issued and resets consecutiveErrors.
ForcedLoginKeepingCount(c, ok) ==
    /\ cyc[c].pc = "relogin"
    /\ ok => serverSession < MaxSessions
    /\ serverSession' = IF ok THEN serverSession + 1 ELSE serverSession
    /\ sessionId' = IF ok THEN serverSession + 1 ELSE sessionId
    /\ mon' = mon
    /\ cyc' = [cyc EXCEPT ![c] = AfterFailure(c, mon)]
    /\ UNCHANGED <<ledgerVars, transfers, faults, now, bankTxs, rp, cn, reaped,
                   notices, call, pureVars>>

ForcedLogin(c, ok) ==
    /\ cyc[c].pc = "relogin"
    /\ ok => serverSession < MaxSessions
    /\ serverSession' = IF ok THEN serverSession + 1 ELSE serverSession
    /\ sessionId' = IF ok THEN serverSession + 1 ELSE sessionId
    /\ LET m == IF ok THEN [mon EXCEPT !.errors = 0] ELSE mon
       IN  /\ mon' = m
           /\ cyc' = [cyc EXCEPT ![c] = AfterFailure(c, m)]
    /\ UNCHANGED <<ledgerVars, transfers, faults, now, bankTxs, rp, cn, reaped,
                   notices, call, pureVars>>

\* The alert to Config.adminChatId (a failure to send is swallowed), then
\* clearInterval(intervalId).
Alert(c, sent) ==
    /\ cyc[c].pc = "alert"
    /\ sent => mon.alerts < MaxAlerts
    /\ mon' = [mon EXCEPT !.paused = TRUE,
                          !.alerts = IF sent THEN mon.alerts + 1 ELSE mon.alerts]
    /\ cyc' = [cyc EXCEPT ![c] = IdleCycle]
    /\ UNCHANGED <<ledgerVars, transfers, faults, cycleFrame>>

\* getBalance answers a list that holds Config.bank.accountNumber:
\* getTransactionsHistory is called for the last hour.
GetBalance(c) ==
    /\ cyc[c].pc = "fetch"
    /\ cyc' = [cyc EXCEPT ![c].pc = "history"]
    /\ UNCHANGED <<ledgerVars, transfers, faults, mon, cycleFrame>>

\* The history of the last hour arrives; credits are filtered and sorted.
Fetch(c) ==
    /\ cyc[c].pc = "history"
    /\ cyc' = [cyc EXCEPT ![c] =
            IF Len(bankTxs) = 0 THEN IdleCycle
            ELSE [IdleCycle EXCEPT !.pc = "pending",
                                   !.txs = CreditTransactions(bankTxs)]]
    /\ Returned(c)
    /\ UNCHANGED <<ledgerVars, transfers, faults, cycleFrame>>

\* getPendingPayments: SMEMBERS payments:pending; a Redis error is answered
\* with the empty list.
GetPending(c, ok) ==
    /\ cyc[c].pc = "pending"
    /\ Command(ok)
    /\ cyc' = [cyc EXCEPT ![c] = NextPayment(c, IF ok THEN pendingSet ELSE {})]
    /\ Returned(c)
    /\ UNCHANGED <<ledgerVars, transfers, cycleFrame>>

\* processPayment up to its first write: getPayment (null, on a Redis error or a
\* missing hash, throws), the status check, the expiry check and the search for
\* a matching credit. (Intake always stores a numeric amountVND and a memo, so
\* the two other throws are not taken.)
ReadPayment(c, p, ok) ==
    /\ cyc[c].pc = "read"
    /\ p \in cyc[c].queue
    /\ Command(ok)
    /\ LET data == payment[p]
           q    == cyc[c].queue \ {p}
           m    == FirstMatch(cyc[c].txs, data.memo, ParseInt(data.amountVND).val)
       IN  cyc' = [cyc EXCEPT ![c] =
              IF ~ok \/ data.status = "none"
              THEN [cyc[c] EXCEPT !.pc = "catch", !.queue = q, !.cur = p,
                                  !.err = "not_found",
                                  !.failed = cyc[c].failed \cup {p}]
              ELSE IF data.status # "pending" THEN NextPayment(c, q)
              ELSE IF data.expiresAt > 0 /\ now > data.expiresAt
                   THEN [cyc[c] EXCEPT !.pc = "wexpired", !.queue = q, !.cur = p]
              ELSE IF m = 0 THEN NextPayment(c, q)
              ELSE [cyc[c] EXCEPT !.pc = "wprocessing", !.queue = q, !.cur = p,
                                  !.usdt = data.usdtTransactionId,
                                  !.ref = cyc[c].txs[m].refNo]]
    /\ Returned(c)
    /\ UNCHANGED <<ledgerVars, transfers, cycleFrame>>

\* The catch of the for loop of checkTransactions: getPayment again, and the
\* test that the payment is still pending.
CatchRead(c, ok) ==
    /\ cyc[c].pc = "catch"
    /\ Command(ok)
    /\ cyc' = [cyc EXCEPT ![c] =
            IF ok /\ payment[cyc[c].cur].status = "pending"
            THEN [cyc[c] EXCEPT !.pc = "werror"]
            ELSE NextPayment(c, cyc[c].queue)]
    /\ Returned(c)
    /\ UNCHANGED <<ledgerVars, transfers, cycleFrame>>

\* updatePaymentStatus(paymentId, "error", {errorMessage, ...}), then the
\* notification of the admin.
WriteError(c, ok) ==
    /\ cyc[c].pc = "werror"
    /\ UpdatePaymentStatus(cyc[c].cur, "error", [error |-> cyc[c].err], ok)
    /\ cyc' = [cyc EXCEPT ![c] = NextPayment(c, cyc[c].queue)]
    /\ Returned(c)
    /\ UNCHANGED <<pendingSet, completedSet, expirySet, activePayment,
                   transfers, cycleFrame>>

\* updatePaymentStatus(paymentId, "expired")
WriteExpired(c, ok) ==
    /\ cyc[c].pc = "wexpired"
    /\ UpdatePaymentStatus(cyc[c].cur, "expired", NoFields, ok)
    /\ cyc' = [cyc EXCEPT ![c].pc = "zrem"]
    /\ UNCHANGED <<pendingSet, completedSet, expirySet, activePayment,
                   transfers, mon, cycleFrame>>

\* removeFromExpirySet(paymentId); return
RemoveExpired(c, ok) ==
    /\ cyc[c].pc = "zrem"
    /\ Command(ok)
    /\ expirySet' = IF ok THEN expirySet \ {cyc[c].cur} ELSE expirySet
    /\ cyc' = [cyc EXCEPT ![c] = NextPayment(c, cyc[c].queue)]
    /\ Returned(c)
    /\ UNCHANGED <<payment, pendingSet, completedSet, activePayment,
                   transfers, cycleFrame>>

\* updatePaymentStatus(paymentId, "processing", {transactionRef, ...}); its
\* answer is not read.
WriteProcessingThenTransfer(c, ok) ==
    /\ cyc[c].pc = "wprocessing"
    /\ UpdatePaymentStatus(cyc[c].cur, "processing",
                           [transactionRef |-> cyc[c].ref], ok)
    /\ cyc' = [cyc EXCEPT ![c].pc = "transfer"]
    /\ UNCHANGED <<pendingSet, completedSet, expirySet, activePayment,
                   transfers, mon, cycleFrame>>

WriteProcessing(c, ok) ==
    /\ cyc[c].pc = "wprocessing"
    /\ UpdatePaymentStatus(cyc[c].cur, "processing",
                           [transactionRef |-> cyc[c].ref], ok)
    /\ cyc' = [cyc EXCEPT ![c].pc =
                  IF cyc[c].usdt = 0 THEN "transfer" ELSE "wcompleted"]
    /\ UNCHANGED <<pendingSet, completedSet, expirySet, activePayment,
                   transfers, mon, cycleFrame>>

\* processUsdtTransfer up to the answer of transferUsdt: getUserByEmail (no
\* recipient throws), hasSufficientBalance (false throws), then
\* basalPayService.transferUsdt (a failed transfer throws). The two lookups touch
\* no shared state, so they are taken together with the transfer they guard.
SettlementOutcomes == {"no_recipient", "insufficient", "transfer_failed", "transferred"}

TransferInvoked(outcome) == outcome \in {"transfer_failed", "transferred"}

\* What getUserByEmail answers ("": the payment has no email, or no user has it).
Recipients == {"", "r1"}

\* What getUsdtBalance answers: it throws (ok = FALSE), or gives the balance as a
\* string.
WalletAnswers ==
    {[ok |-> FALSE, balance |-> <<>>]}
        \cup {[ok |-> TRUE, balance |-> b] : b \in {<<>>, <<"9">>, <<"1", "0">>}}

NoAnswer == [ok |-> FALSE, balance |-> <<>>]

\* paymentData.amountUSDT of the payments of the model.
AmountUSDT == <<"1", "0">>

\* JavaScript parseFloat on strings of decimal digits with an optional sign:
\* the number they spell, NaN when there is no digit.
ParseFloat(s) == ParseInt(s)

\* BasalPayService.hasSufficientBalance(amount): false when getUsdtBalance
\* throws or either number is NaN.
HasSufficientBalanceUnchecked(ans, amount) == TRUE

HasSufficientBalance(ans, amount) ==
    /\ ans.ok
    /\ ~ParseFloat(ans.balance).nan
    /\ ~ParseFloat(amount).nan
    /\ ParseFloat(ans.balance).val >= ParseFloat(amount).val

\* How processUsdtTransfer ends, up to the answer of transferUsdt.
SettlementOutcome(recipient, ans, sent) ==
    IF recipient = "" THEN "no_recipient"
    ELSE IF ~HasSufficientBalance(ans, AmountUSDT) THEN "insufficient"
    ELSE IF sent THEN "transferred" ELSE "transfer_failed"

\* processUsdtTransfer up to the answer of transferUsdt. `recipient` and
\* `wallet` keep what the two lookups answered (the wallet is asked only when a
\* recipient was found; transferUsdt is called only after both).
Transfer(c, recipient, ans, sent) ==
    /\ cyc[c].pc = "transfer"
    /\ recipient = "" => ans = NoAnswer
    /\ ~TransferInvoked(SettlementOutcome(recipient, ans, sent)) => sent
    /\ LET p == cyc[c].cur
           outcome == SettlementOutcome(recipient, ans, sent)
       IN  /\ TransferInvoked(outcome) => transfers[p] < MaxTransfers
           /\ transfers' = IF TransferInvoked(outcome)
                           THEN [transfers EXCEPT ![p] = @ + 1] ELSE transfers
           /\ cyc' = [cyc EXCEPT ![c] =
                  IF outcome = "transferred"
                  THEN [cyc[c] EXCEPT !.pc = "wcompleted", !.newId = transfers[p] + 1,
                                      !.recipient = recipient, !.wallet = ans]
                  ELSE [cyc[c] EXCEPT !.pc = "wmanual", !.err = outcome,
                                      !.failed = cyc[c].failed \cup {p},
                                      !.recipient = recipient, !.wallet = ans]]
    /\ UNCHANGED <<ledgerVars, faults, mon, cycleFrame>>

\* updatePaymentStatus(paymentId, "completed", {usdtTransactionId, ...}) after a
\* transfer; updatePaymentStatus(paymentId, "completed") when the payment read
\* already carried a usdtTransactionId.
WriteCompleted(c, ok) ==
    /\ cyc[c].pc = "wcompleted"
    /\ UpdatePaymentStatus(cyc[c].cur, "completed",
            IF cyc[c].usdt = 0 THEN [usdtTransactionId |-> cyc[c].newId] ELSE NoFields,
            ok)
    /\ cyc' = [cyc EXCEPT ![c].pc = "complete"]
    /\ UNCHANGED <<pendingSet, completedSet, expirySet, activePayment,
                   transfers, mon, cycleFrame>>

\* completePayment: SREM payments:pending, SADD payments:completed (a Redis
\* error skips both, and its answer is not read); then notifyUser, which sends
\* the payment-confirmed message to the owner, and notifyAdmin (failures to send
\* are swallowed).
CompletePayment(c, ok) ==
    /\ cyc[c].pc = "complete"
    /\ Command(ok)
    /\ pendingSet' = IF ok THEN pendingSet \ {cyc[c].cur} ELSE pendingSet
    /\ completedSet' = IF ok THEN completedSet \cup {cyc[c].cur} ELSE completedSet
    /\ notices' = notices \cup {<<"confirmed", cyc[c].cur>>}
    /\ cyc' = [cyc EXCEPT ![c] = NextPayment(c, cyc[c].queue)]
    /\ Returned(c)
    /\ UNCHANGED <<payment, expirySet, activePayment, transfers,
                   now, bankTxs, rp, cn, reaped, bankVars, pureVars>>

\* The catch of processPayment: updatePaymentStatus(paymentId, "manual_review",
\* {error, ...}), then the notification of the admin.
WriteManualReview(c, ok) ==
    /\ cyc[c].pc = "wmanual"
    /\ UpdatePaymentStatus(cyc[c].cur, "manual_review", [error |-> cyc[c].err], ok)
    /\ cyc' = [cyc EXCEPT ![c] = NextPayment(c, cyc[c].queue)]
    /\ Returned(c)
    /\ UNCHANGED <<pendingSet, completedSet, expirySet, activePayment,
                   transfers, cycleFrame>>

(***************************************************************************)
(* setupExpiryJob: the hourly cron callback.                               *)
(***************************************************************************)
reaperFrame == <<now, bankTxs, cyc, cn, transfers, mon, bankVars, pureVars>>

NextExpired(q) ==
    IF q = {} THEN IdleReaper ELSE [IdleReaper EXCEPT !.pc = "read", !.queue = q]

\* getExpiredPayments (a Redis error is answered with the empty list); an empty
\* answer ends the job.
ReaperStart(ok) ==
    /\ rp.pc = "idle"
    /\ Command(ok)
    /\ rp' = NextExpired(IF ok THEN ExpiredPayments ELSE {})
    /\ UNCHANGED <<ledgerVars, reaped, notices, reaperFrame>>

\* getPayment(paymentId) (null on a Redis error) and the test of its status.
ReaperRead(p, ok) ==
    /\ rp.pc = "read"
    /\ p \in rp.queue
    /\ Command(ok)
    /\ rp' = [rp EXCEPT !.queue = rp.queue \ {p}, !.cur = p,
                        !.pc = IF ok /\ payment[p].status = "pending"
                               THEN "wexpired" ELSE "zrem"]
    /\ UNCHANGED <<ledgerVars, reaped, notices, reaperFrame>>

\* updatePaymentStatus(paymentId, "expired")
ReaperWriteExpired(ok) ==
    /\ rp.pc = "wexpired"
    /\ UpdatePaymentStatus(rp.cur, "expired", NoFields, ok)
    /\ rp' = [rp EXCEPT !.pc = "srem"]
    /\ reaped' = IF ok THEN reaped \cup {rp.cur} ELSE reaped
    /\ UNCHANGED <<pendingSet, completedSet, expirySet, activePayment,
                   notices, reaperFrame>>

\* redis.srem("payments:pending", paymentId), then the expiry notification. A
\* Redis error is thrown to the catch of the loop body, which goes to the next id.
ReaperRemovePending(ok) ==
    /\ rp.pc = "srem"
    /\ Command(ok)
    /\ pendingSet' = IF ok THEN pendingSet \ {rp.cur} ELSE pendingSet
    /\ rp' = IF ok THEN [rp EXCEPT !.pc = "zrem"] ELSE NextExpired(rp.queue)
    /\ notices' = IF ok THEN notices \cup {<<"expired", rp.cur>>} ELSE notices
    /\ UNCHANGED <<payment, completedSet, expirySet, activePayment,
                   reaped, reaperFrame>>

\* removeFromExpirySet(paymentId) (a Redis error is swallowed), then the next id
\* of the list.
ReaperRemoveExpiry(ok) ==
    /\ rp.pc = "zrem"
    /\ Command(ok)
    /\ expirySet' = IF ok THEN expirySet \ {rp.cur} ELSE expirySet
    /\ rp' = NextExpired(rp.queue)
    /\ UNCHANGED <<payment, pendingSet, completedSet, activePayment,
                   reaped, notices, reaperFrame>>

(***************************************************************************)
(* The cancel_payment action of the bot.                                   *)
(***************************************************************************)
cancelFrame == <<now, bankTxs, cyc, rp, transfers, reaped, notices, faults, mon,
                 bankVars, pureVars>>

\* redis.hgetall and the three checks: exists, belongs to the user, is pending.
CancelRead(u, p) ==
    /\ cn.pc = "idle"
    /\ cn' = IF payment[p].userId = u /\ payment[p].status = "pending"
             THEN [pc |-> "hset", cur |-> p, user |-> u]
             ELSE IdleCancel
    /\ UNCHANGED <<ledgerVars, cancelFrame>>

\* redis.del in place of the status write.
CancelWriteDeleting ==
    /\ cn.pc = "hset"
    /\ payment' = [payment EXCEPT ![cn.cur] = NoRecord]
    /\ cn' = [cn EXCEPT !.pc = "srem"]
    /\ UNCHANGED <<pendingSet, completedSet, expirySet, activePayment,
                   cancelFrame>>

\* redis.hset(payment, {status: "canceled", canceledAt})
CancelWrite ==
    /\ cn.pc = "hset"
    /\ payment' = [payment EXCEPT ![cn.cur].status = "canceled"]
    /\ cn' = [cn EXCEPT !.pc = "srem"]
    /\ UNCHANGED <<pendingSet, completedSet, expirySet, activePayment,
                   cancelFrame>>

\* redis.srem("payments:pending", paymentId)
CancelRemovePending ==
    /\ cn.pc = "srem"
    /\ pendingSet' = pendingSet \ {cn.cur}
    /\ cn' = [cn EXCEPT !.pc = "get"]
    /\ UNCHANGED <<payment, completedSet, expirySet, activePayment,
                   cancelFrame>>

\* redis.get(user:{id}:activePayment) and the comparison with the payment id
CancelGetActive ==
    /\ cn.pc = "get"
    /\ cn' = IF activePayment[cn.user] = cn.cur
             THEN [cn EXCEPT !.pc = "del"] ELSE IdleCancel
    /\ UNCHANGED <<ledgerVars, cancelFrame>>

\* redis.del(user:{id}:activePayment)
CancelClearActive ==
    /\ cn.pc = "del"
    /\ activePayment' = [activePayment EXCEPT ![cn.user] = NoPayment]
    /\ cn' = IdleCancel
    /\ UNCHANGED <<payment, pendingSet, completedSet, expirySet,
                   cancelFrame>>

(***************************************************************************)
(* The ledger specification.                                               *)
(***************************************************************************)
BankIdle ==
    /\ sessionId = 0
    /\ serverSession = 0
    /\ call = <<>>

NoMatchResult == [done |-> FALSE, credit |-> <<>>, matches |-> <<>>, found |-> 0]

PureIdle ==
    /\ mIn = [entries |-> <<>>, memo |-> <<>>, amountVND |-> <<>>]
    /\ mOut = NoMatchResult
    /\ dIn = [fromDate |-> 0, toDate |-> 0]
    /\ dOut = "none"

LedgerEmpty ==
    /\ payment = [p \in Payments |-> NoRecord]
    /\ pendingSet = {}
    /\ completedSet = {}
    /\ expirySet = {}
    /\ activePayment = [u \in Users |-> NoPayment]
    /\ now = 1
    /\ cyc = [c \in Cycles |-> IdleCycle]
    /\ rp = IdleReaper
    /\ cn = IdleCancel
    /\ transfers = [p \in Payments |-> 0]
    /\ reaped = {}
    /\ notices = {}
    /\ faults = 0
    /\ mon = IdleMonitor

Init ==
    /\ LedgerEmpty
    /\ bankTxs \in HistoryChoices
    /\ BankIdle
    /\ PureIdle

\* `oks`: the outcomes of a Redis command that the run allows ({TRUE}: Redis
\* answers every command; BOOLEAN: a command may fail).
CycleStep(c, oks) ==
    \/ \E h \in TickHours : TimerTick(c, h)
    \/ GetBalance(c)
    \/ Fetch(c)
    \/ \E ok \in oks : GetPending(c, ok)
    \/ \E p \in Payments, ok \in oks : ReadPayment(c, p, ok)
    \/ \E ok \in oks : WriteExpired(c, ok)
    \/ \E ok \in oks : RemoveExpired(c, ok)
    \/ \E ok \in oks : WriteProcessing(c, ok)
    \/ \E r \in Recipients, ans \in WalletAnswers, sent \in BOOLEAN :
            Transfer(c, r, ans, sent)
    \/ \E ok \in oks : WriteCompleted(c, ok)
    \/ \E ok \in oks : CompletePayment(c, ok)
    \/ \E ok \in oks : WriteManualReview(c, ok)

\* What follows a failure of getPayment.
CatchStep(c) ==
    \/ \E ok \in BOOLEAN : CatchRead(c, ok)
    \/ \E ok \in BOOLEAN : WriteError(c, ok)

\* What follows a failure of the bank.
FailureStep(c) ==
    \/ \E gw200 \in BOOLEAN : FetchFails(c, gw200)
    \/ \E ok \in BOOLEAN : ForcedLogin(c, ok)
    \/ \E sent \in BOOLEAN : Alert(c, sent)

ReaperStep(oks) ==
    \/ \E ok \in oks : ReaperStart(ok)
    \/ \E p \in Payments, ok \in oks : ReaperRead(p, ok)
    \/ \E ok \in oks : ReaperWriteExpired(ok)
    \/ \E ok \in oks : ReaperRemovePending(ok)
    \/ \E ok \in oks : ReaperRemoveExpiry(ok)

CancelStep ==
    \/ \E u \in Users, p \in Payments : CancelRead(u, p)
    \/ CancelWrite
    \/ CancelRemovePending
    \/ CancelGetActive
    \/ CancelClearActive

\* One payment, and every handler that touches it: up to two invocations of the
\* timer callback in flight (a tick may fire while the previous cycle is still
\* running), the expiry job, the cancel handler, intake and the clock. Redis
\* answers every write.
Next ==
    \/ CreatePayment("u1", "p1", <<"1", "2">>)
    \/ AdvanceTime
    \/ \E c \in Cycles : CycleStep(c, {TRUE})
    \/ ReaperStep({TRUE})
    \/ CancelStep

Spec == Init /\ [][Next]_vars

\* One payment, one cycle at a time and the expiry job, with Redis writes that
\* may fail (at most MaxFaults of them).
NextFaults ==
    \/ CreatePayment("u1", "p1", <<"1", "2">>)
    \/ AdvanceTime
    \/ CycleStep(1, BOOLEAN)
    \/ CatchStep(1)
    \/ ReaperStep(BOOLEAN)

SpecFaults == Init /\ [][NextFaults]_vars

\* Two payments (p2 may carry the memo of p1) and one cycle at a time, with
\* Redis commands that may fail, a bank that may fail and up to MaxPairTxs
\* credits at the bank.
MaxPairTxs == 2

InitPair ==
    /\ LedgerEmpty
    /\ bankTxs \in Histories(MaxPairTxs)
    /\ BankIdle
    /\ PureIdle

NextPair ==
    \/ \E ch \in PaymentChoices : CreatePayment(ch[1], ch[2], ch[3])
    \/ AdvanceTime
    \/ CycleStep(1, BOOLEAN)
    \/ CatchStep(1)
    \/ FetchFails(1, FALSE)
    \/ \E sent \in BOOLEAN : Alert(1, sent)

SpecPair == InitPair /\ [][NextPair]_vars

\* The ledger as the process finds it at its start (Redis outlives the process):
\* one pending payment whose record may already carry a usdtTransactionId, put
\* there outside the handlers modelled here (they write usdtTransactionId only
\* together with status completed). One cycle at a time, Redis answers.
StoredId == 7

InitRecovery ==
    /\ \E id \in {0, StoredId} :
          payment = [p \in Payments |->
              IF p = "p1"
              THEN [status |-> "pending", userId |-> "u1", memo |-> <<"1", "2">>,
                    amountVND |-> DecimalString(RequestedVND),
                    expiresAt |-> 1 + ExpiryTicks,
                    usdtTransactionId |-> id, transactionRef |-> "", error |-> ""]
              ELSE NoRecord]
    /\ pendingSet = {"p1"}
    /\ completedSet = {}
    /\ expirySet = {"p1"}
    /\ activePayment = [u \in Users |-> IF u = "u1" THEN "p1" ELSE NoPayment]
    /\ now = 1
    /\ cyc = [c \in Cycles |-> IdleCycle]
    /\ rp = IdleReaper
    /\ cn = IdleCancel
    /\ transfers = [p \in Payments |-> 0]
    /\ reaped = {}
    /\ notices = {}
    /\ faults = 0
    /\ mon = IdleMonitor
    /\ bankTxs \in HistoryChoices
    /\ BankIdle
    /\ PureIdle

NextRecovery ==
    \/ AdvanceTime
    \/ CycleStep(1, {TRUE})

SpecRecovery == InitRecovery /\ [][NextRecovery]_vars

\* The timer callback alone: cycles that succeed (no pending payment) or fail in
\* their fetch, the forced re-login and the pause; two invocations may be in
\* flight.
NextMonitor ==
    \E c \in Cycles :
        \/ \E h \in TickHours : TimerTick(c, h)
        \/ GetBalance(c)
        \/ Fetch(c)
        \/ GetPending(c, TRUE)
        \/ FailureStep(c)

SpecMonitor == Init /\ [][NextMonitor]_vars

\* The timer callback through the hours of a day: the clock counts hours, and
\* a tick reads its hour from the clock.
MaxHours == 24

HourPasses ==
    /\ now < MaxHours
    /\ now' = now + 1
    /\ UNCHANGED <<ledgerVars, bankTxs, cyc, rp, cn, transfers, reaped, notices,
                   faults, mon, bankVars, pureVars>>

NextHours ==
    \/ HourPasses
    \/ \E c \in Cycles :
          \/ TimerTick(c, UTCHour(now))
          \/ GetBalance(c)
          \/ Fetch(c)
          \/ GetPending(c, TRUE)
          \/ FailureStep(c)

SpecHours == Init /\ [][NextHours]_vars

\* One payment, one cycle at a time, the expiry job and the clock, with Redis
\* answering every command; the timer and the cron keep firing, every awaited
\* call returns, and the clock keeps running.
NextSweep ==
    \/ CreatePayment("u1", "p1", <<"1", "2">>)
    \/ AdvanceTime
    \/ CycleStep(1, {TRUE})
    \/ ReaperStep({TRUE})

SpecSweep ==
    /\ Init /\ [][NextSweep]_vars
    /\ WF_vars(AdvanceTime)
    /\ WF_vars(CycleStep(1, {TRUE}))
    /\ WF_vars(ReaperStep({TRUE}))


\* The same handlers with Redis commands that may fail (at most MaxFaults of
\* them), and the catch path of the cycle.
SpecSweepFaults ==
    /\ Init /\ [][NextFaults]_vars
    /\ WF_vars(AdvanceTime)
    /\ WF_vars(CycleStep(1, BOOLEAN) \/ CatchStep(1))
    /\ WF_vars(ReaperStep(BOOLEAN))

\* The cancel handler beside intake and the expiry job: two payments of u1 (u2
\* owns none and may ask to cancel them), Redis answers every command.
NextCancel ==
    \/ \E ch \in PaymentChoices : CreatePayment(ch[1], ch[2], ch[3])
    \/ AdvanceTime
    \/ ReaperStep({TRUE})
    \/ CancelStep

SpecCancel == Init /\ [][NextCancel]_vars

(***************************************************************************)
(* BankService: login and mbRequest. Several calls may be in flight on the *)
(* one instance (two invocations of the timer callback, or a request and   *)
(* the monitor's forced login); each is at one of its awaits.              *)
(***************************************************************************)

Callers == {1, 2}

IdleCall ==
    [pc |-> "idle", op |-> "none", attempts |-> 0, relogins |-> 0,
     sends |-> 0, sent |-> 0, result |-> "none",
     captcha |-> "", ocr |-> 0, last |-> "none",
     data |-> "none", sentData |-> "none", ref |-> <<>>]

LoginPcs == {"captcha", "dologin"}

\* The first piece of login(): POST getCaptchaImage.
EnterLogin(cl) ==
    [cl EXCEPT !.pc = "captcha", !.attempts = cl.attempts + 1, !.captcha = ""]

\* What the callers of mbRequest pass as `data`: the path and body of getBalance,
\* and those of getTransactionsHistory.
RequestData == {"getBalance", "getTransactionHistory"}

\* getTimeNow(): the time of the call, as a timestamp.
GetTimeNow == now

\* getRefNo(): `${username}-${getTimeNow()}`
GetRefNo == <<"username", GetTimeNow>>

\* mbRequest from getRefNo and the construction of the body (which reads
\* this.sessionId and merges data.json over the default body) to the POST of the
\* request to data.path.
SendRequest(cl, session) ==
    [cl EXCEPT !.pc = "response", !.sends = cl.sends + 1, !.sent = session,
               !.sentData = cl.data, !.ref = GetRefNo]

Return(cl, result) == [cl EXCEPT !.pc = "idle", !.result = result]

bankFrame == <<ledgerVars, engineVars, pureVars>>

RequestStartWithoutSessionCheck(k, data) ==
    /\ call[k].pc = "idle"
    /\ call' = [call EXCEPT ![k] =
            SendRequest([IdleCall EXCEPT !.op = "request", !.data = data],
                        sessionId)]
    /\ UNCHANGED <<sessionId, serverSession, bankFrame>>

\* A caller (getBalance, getTransactionsHistory) enters mbRequest: without a
\* session it logs in first, otherwise it sends the request.
RequestStart(k, data) ==
    /\ call[k].pc = "idle"
    /\ call' = [call EXCEPT ![k] =
            IF sessionId = 0
            THEN EnterLogin([IdleCall EXCEPT !.op = "request", !.data = data])
            ELSE SendRequest([IdleCall EXCEPT !.op = "request", !.data = data],
                             sessionId)]
    /\ UNCHANGED <<sessionId, serverSession, bankFrame>>

\* setupTransactionMonitor calls bankService.login() after a session error.
LoginStart(k) ==
    /\ call[k].pc = "idle"
    /\ call' = [call EXCEPT ![k] = EnterLogin([IdleCall EXCEPT !.op = "login"])]
    /\ UNCHANGED <<sessionId, serverSession, bankFrame>>

CaptchaSolvedSameImage(k, solved) ==
    /\ call[k].pc = "captcha"
    /\ (~solved) => call[k].ocr < MaxLoginAttempts
    /\ call' = [call EXCEPT ![k] =
            IF solved
            THEN [call[k] EXCEPT !.pc = "dologin", !.ocr = call[k].ocr + 1,
                                 !.captcha = "text"]
            ELSE [call[k] EXCEPT !.ocr = call[k].ocr + 1]]
    /\ UNCHANGED <<sessionId, serverSession, bankFrame>>

\* The captcha image arrives and recognizeCaptcha answers: null calls login()
\* again, a text is posted to doLogin.
CaptchaSolved(k, solved) ==
    /\ call[k].pc = "captcha"
    /\ (~solved) => call[k].attempts < MaxLoginAttempts
    /\ call' = [call EXCEPT ![k] =
            IF solved
            THEN [call[k] EXCEPT !.pc = "dologin", !.ocr = call[k].ocr + 1,
                                 !.captcha = "text"]
            ELSE EnterLogin([call[k] EXCEPT !.ocr = call[k].ocr + 1])]
    /\ UNCHANGED <<sessionId, serverSession, bankFrame>>

LoginAnswers == {"ok", "GW283", "other", "no_result"}

\* The request is sent again with the session id read before the login.
LoginResponseOldSession(k, answer) ==
    /\ call[k].pc = "dologin"
    /\ answer = "ok" => serverSession < MaxSessions
    /\ answer = "GW283" => call[k].attempts < MaxLoginAttempts
    /\ serverSession' = IF answer = "ok" THEN serverSession + 1 ELSE serverSession
    /\ sessionId' = IF answer = "ok" THEN serverSession + 1 ELSE sessionId
    /\ LET cl == [call[k] EXCEPT !.last = answer]
       IN  call' = [call EXCEPT ![k] =
            CASE answer = "ok" ->
                    IF cl.op = "request"
                    THEN SendRequest(cl, IF cl.sends = 0 THEN serverSession + 1
                                         ELSE cl.sent)
                    ELSE Return(cl, "ok")
              [] answer = "GW283" -> EnterLogin(cl)
              [] answer = "no_result" -> Return(cl, "login_unknown")
              [] OTHER -> Return(cl, "login_error")]
    /\ UNCHANGED bankFrame

LoginResponseRetrying(k, answer) ==
    /\ call[k].pc = "dologin"
    /\ answer = "ok" => serverSession < MaxSessions
    /\ answer \in {"GW283", "other"} => call[k].attempts < MaxLoginAttempts
    /\ serverSession' = IF answer = "ok" THEN serverSession + 1 ELSE serverSession
    /\ sessionId' = IF answer = "ok" THEN serverSession + 1 ELSE sessionId
    /\ LET cl == [call[k] EXCEPT !.last = answer]
       IN  call' = [call EXCEPT ![k] =
            CASE answer = "ok" ->
                    IF cl.op = "request"
                    THEN SendRequest(cl, serverSession + 1)
                    ELSE Return(cl, "ok")
              [] answer \in {"GW283", "other"} -> EnterLogin(cl)
              [] OTHER -> Return(cl, "login_unknown")]
    /\ UNCHANGED bankFrame

\* The answer of doLogin. ok: the session id is stored and login() returns (to
\* mbRequest, which sends the request, or to the monitor); GW283: login() is
\* called again; anything else throws, through mbRequest, to the caller.
LoginResponse(k, answer) ==
    /\ call[k].pc = "dologin"
    /\ answer = "ok" => serverSession < MaxSessions
    /\ answer = "GW283" => call[k].attempts < MaxLoginAttempts
    /\ serverSession' = IF answer = "ok" THEN serverSession + 1 ELSE serverSession
    /\ sessionId' = IF answer = "ok" THEN serverSession + 1 ELSE sessionId
    /\ LET cl == [call[k] EXCEPT !.last = answer]
       IN  call' = [call EXCEPT ![k] =
            CASE answer = "ok" ->
                    IF cl.op = "request"
                    THEN SendRequest(cl, serverSession + 1)
                    ELSE Return(cl, "ok")
              [] answer = "GW283" -> EnterLogin(cl)
              [] answer = "no_result" -> Return(cl, "login_unknown")
              [] OTHER -> Return(cl, "login_error")]
    /\ UNCHANGED bankFrame

RequestAnswers == {"ok", "unparsable", "empty", "no_result", "GW200", "other"}

\* The answer of the request. GW200: login() and then mbRequest(data) again.
Response(k, answer) ==
    /\ call[k].pc = "response"
    /\ answer = "GW200" => call[k].relogins < MaxRelogins
    /\ LET cl == [call[k] EXCEPT !.last = answer]
       IN  call' = [call EXCEPT ![k] =
            CASE answer = "ok" -> Return(cl, "ok")
              [] answer = "unparsable" -> Return(cl, "parse_error")
              [] answer \in {"empty", "no_result"} -> Return(cl, "false")
              [] answer = "GW200" ->
                    EnterLogin([cl EXCEPT !.relogins = cl.relogins + 1,
                                          !.attempts = 0, !.ocr = 0])
              [] OTHER -> Return(cl, "request_error")]
    /\ UNCHANGED <<sessionId, serverSession, bankFrame>>

InitBank ==
    /\ LedgerEmpty
    /\ bankTxs = <<>>
    /\ sessionId = 0
    /\ serverSession = 0
    /\ call = [k \in Callers |-> IdleCall]
    /\ PureIdle

NextBank ==
    \E k \in Callers :
        \/ RequestStart(k, "getBalance")
        \/ LoginStart(k)
        \/ \E solved \in BOOLEAN : CaptchaSolved(k, solved)
        \/ \E answer \in LoginAnswers : LoginResponse(k, answer)
        \/ \E answer \in RequestAnswers : Response(k, answer)

SpecBank == InitBank /\ [][NextBank]_vars

\* mbRequest through a session expiry: two callers with either request, a bank
\* that accepts every login and answers a request with ok or with GW200, and a
\* clock that runs while the calls are in flight.
NextRetry ==
    \/ AdvanceTime
    \/ \E k \in Callers :
          \/ \E data \in RequestData : RequestStart(k, data)
          \/ CaptchaSolved(k, TRUE)
          \/ LoginResponse(k, "ok")
          \/ \E answer \in {"ok", "GW200"} : Response(k, answer)

SpecRetry == InitBank /\ [][NextRetry]_vars

(***************************************************************************)
(* The matching step of processPayment on its own: the bank's entries of   *)
(* the lookback window, one pending payment, and what filter / sort / find *)
(* make of them.                                                           *)
(***************************************************************************)
MaxEntries == 2     \* entries in the bank's answer

EntryDescs == {<<>>, <<"1", "2">>, <<"x", "1", "2">>, <<"2", "1">>}

EntryCredits ==
    {0, RequestedVND - Tolerance - 1, RequestedVND - Tolerance, RequestedVND,
     RequestedVND + Tolerance, RequestedVND + Tolerance + 1}

\* What the bank booked: a description, the amount credited (0: a debit) and a date.
BankEntries ==
    [desc : EntryDescs, credit : EntryCredits, date : {1, 2}]

\* getTransactionsHistory: the entries as TransactionInfo, amounts as strings;
\* refNo is the entry's place in the answer.
TransactionInfos(entries) ==
    [i \in 1..Len(entries) |->
        [refNo |-> i, transactionDesc |-> entries[i].desc,
         creditAmount |-> DecimalString(entries[i].credit),
         transactionDate |-> entries[i].date]]

\* Lines 878-884 and 950-981 of binance-service.ts for one payment.
FindMatch ==
    /\ ~mOut.done
    /\ LET credit    == CreditTransactions(TransactionInfos(mIn.entries))
           amountVND == ParseInt(mIn.amountVND).val
       IN  mOut' = [done |-> TRUE, credit |-> credit,
                    matches |-> [i \in 1..Len(credit) |->
                                    TxMatches(credit[i], mIn.memo, amountVND)],
                    found |-> FirstMatch(credit, mIn.memo, amountVND)]
    /\ UNCHANGED <<mIn, dIn, dOut, ledgerVars, engineVars, bankVars>>

InitMatch ==
    /\ LedgerEmpty
    /\ bankTxs = <<>>
    /\ BankIdle
    /\ mIn \in [entries : UNION {[1..n -> BankEntries] : n \in 0..MaxEntries},
                 memo : Memos,
                 amountVND : {DecimalString(RequestedVND)}]
    /\ mOut = NoMatchResult
    /\ dIn = [fromDate |-> 0, toDate |-> 0]
    /\ dOut = "none"

SpecMatch == InitMatch /\ [][FindMatch]_vars

(***************************************************************************)
(* The date validation of getTransactionsHistory on its own. Instants are  *)
(* offsets from now, in fractions of a day.                                *)
(***************************************************************************)
UnitsPerDay == 2        \* an offset of 1 is half a day
MaxOffsetDays == 92     \* dates range over now -/+ MaxOffsetDays
MaxHistoryDays == 90

DateOffsets == (0 - MaxOffsetDays * UnitsPerDay)..(MaxOffsetDays * UnitsPerDay)

\* a.diff(b, "days") of moment: the whole days from b to a, truncated toward zero.
DaysDiff(a, b) ==
    IF a >= b THEN (a - b) \div UnitsPerDay ELSE 0 - ((b - a) \div UnitsPerDay)

\* The two guards at the top of getTransactionsHistory (now is offset 0).
DateRangeRejected(fromDate, toDate) ==
    \/ DaysDiff(0, fromDate) > MaxHistoryDays \/ DaysDiff(0, toDate) > MaxHistoryDays
    \/ DaysDiff(fromDate, toDate) > MaxHistoryDays

\* getTransactionsHistory up to the throw or the call of mbRequest.
ValidateDates ==
    /\ dOut = "none"
    /\ dOut' = IF DateRangeRejected(dIn.fromDate, dIn.toDate)
               THEN "rejected" ELSE "requested"
    /\ UNCHANGED <<dIn, mIn, mOut, ledgerVars, engineVars, bankVars>>

InitDates ==
    /\ LedgerEmpty
    /\ bankTxs = <<>>
    /\ BankIdle
    /\ mIn = [entries |-> <<>>, memo |-> <<>>, amountVND |-> <<>>]
    /\ mOut = NoMatchResult
    /\ dIn \in [fromDate : DateOffsets, toDate : DateOffsets]
    /\ dOut = "none"

SpecDates == InitDates /\ [][ValidateDates]_vars

(***************************************************************************)
(* Properties of the ledger (checked under Spec).                          *)
(***************************************************************************)
TerminalStatuses == {"completed", "expired", "canceled", "manual_review"}

\* C1: a payment whose status is completed, expired, canceled or manual_review
\* never changes status again, whatever the interleaving of reconciliation
\* cycles, the expiry job and the cancel handler.
C1_TerminalAbsorbing ==
    [][\A p \in Payments :
          payment[p].status \in TerminalStatuses
              => payment'[p].status = payment[p].status]_vars

\* C2: over any number of cycles on an unchanged bank transaction set (bankTxs
\* never changes), transferUsdt is invoked at most once per payment.
C2_SettlementAtMostOnce == \A p \in Payments : transfers[p] <= 1

\* C3: transferUsdt is never invoked for a payment whose ledger status is expired
\* or canceled at the moment of the invocation.
C3_NoSettlementOfExpiredOrCanceled ==
    [][\A p \in Payments :
          transfers'[p] # transfers[p]
              => payment[p].status \notin {"expired", "canceled"}]_vars

\* C4: at most one reconciliation cycle is executing at any time.
C4_NoOverlappingCycles ==
    Cardinality({c \in Cycles : cyc[c].pc # "idle"}) <= 1

\* C10: once the expiry job has set a payment to expired, no reconciliation cycle
\* moves it to processing or invokes transferUsdt for it.
C10_ReapedStaysUnsettled ==
    [][\A p \in reaped :
          /\ payment'[p].status = "processing" => payment[p].status = "processing"
          /\ transfers'[p] = transfers[p]]_vars

(***************************************************************************)
(* Properties of BankService (checked under SpecBank).                     *)
(***************************************************************************)
\* C5: at any time at most one login() attempt (captcha request through session
\* assignment) is in progress on the one BankService instance.
C5_LoginsSerialized ==
    Cardinality({k \in Callers : call[k].pc \in LoginPcs}) <= 1

\* C6: within one mbRequest call a GW200 answer leads to one re-login and one
\* re-send of the request; a second GW200 leads to no further re-login or re-send.
C6_RenewalBounded ==
    \A k \in Callers : call[k].relogins <= 1 /\ call[k].sends <= 2

\* C7: login() stops after a bounded number of attempts (5) when every captcha is
\* rejected with GW283 or the solver answers null every time.
C7_LoginAttemptsBounded ==
    \A k \in Callers : call[k].attempts <= 5

(***************************************************************************)
(* Properties of the matching step (checked under SpecMatch).              *)
(***************************************************************************)
\* The bank entry behind a TransactionInfo of the filtered list.
EntryOf(tx) == mIn.entries[tx.refNo]

\* C8: a credit transaction matches the payment if and only if its description
\* contains the payment's memo and the absolute difference between the credited
\* amount and the payment's amountVND is at most 1000.
C8_MatchingPredicate ==
    mOut.done =>
        \A i \in 1..Len(mOut.credit) :
            mOut.matches[i] <=>
                /\ Includes(EntryOf(mOut.credit[i]).desc, mIn.memo)
                /\ EntryOf(mOut.credit[i]).credit - RequestedVND <= 1000
                /\ RequestedVND - EntryOf(mOut.credit[i]).credit <= 1000

\* Two credits carrying the memo, one exactly 1000 over (matched), the other 1001
\* short (not matched).
C8_Witness ==
    /\ mOut.done
    /\ Len(mOut.credit) = 2
    /\ \E i, j \in 1..2 :
          /\ mOut.matches[i] /\ ~mOut.matches[j]
          /\ EntryOf(mOut.credit[i]).credit = RequestedVND + 1000
          /\ EntryOf(mOut.credit[j]).credit = RequestedVND - 1001
          /\ Includes(EntryOf(mOut.credit[j]).desc, mIn.memo)

(***************************************************************************)
(* Properties of the date validation (checked under SpecDates).            *)
(***************************************************************************)
\* C9: a pair of dates is rejected if and only if one of them is more than 90
\* days away from now, in the past or in the future, or the two are more than 90
\* days apart, in either order.
C9_DateRangeValidation ==
    dOut # "none" =>
        (dOut = "rejected" <=>
            \/ Abs(dIn.fromDate) > 90 * UnitsPerDay
            \/ Abs(dIn.toDate) > 90 * UnitsPerDay
            \/ Abs(dIn.fromDate - dIn.toDate) > 90 * UnitsPerDay)

(***************************************************************************)
(* Properties of the status graph and of one cycle.                        *)
(***************************************************************************)
SpecStatuses ==
    {"pending", "processing", "completed", "manual_review", "expired", "canceled"}

SpecEdges ==
    {<<"pending", "processing">>, <<"processing", "completed">>,
     <<"processing", "manual_review">>, <<"pending", "expired">>,
     <<"pending", "canceled">>}

\* C11: the status of a payment is always one of pending, processing, completed,
\* manual_review, expired, canceled, and every change of status follows one of
\* the edges pending->processing, processing->completed,
\* processing->manual_review, pending->expired, pending->canceled.
C11_StatusGraph ==
    [][\A p \in Payments :
          /\ payment'[p].status \in SpecStatuses \cup {"none"}
          /\ (payment[p].status # "none" /\ payment'[p].status # payment[p].status)
                => <<payment[p].status, payment'[p].status>> \in SpecEdges]_vars

\* The step of cycle c is processPayment reading payment p.
Picked(c, p) ==
    /\ cyc[c].pc = "read"
    /\ p \in cyc[c].queue
    /\ cyc'[c].queue = cyc[c].queue \ {p}
    /\ cyc'[c] # cyc[c]

\* Some credit of the cycle's list carries the memo of p and an amount within
\* 1000 of its amountVND.
CreditFor(c, p) ==
    \E i \in 1..Len(cyc[c].txs) :
        /\ Includes(cyc[c].txs[i].transactionDesc, payment[p].memo)
        /\ Abs(ParseInt(cyc[c].txs[i].creditAmount).val
                - ParseInt(payment[p].amountVND).val) <= 1000

Unexpired(p) == payment[p].status = "pending" /\ now <= payment[p].expiresAt

\* Cycle c leaves the place `pc` of its code in this step.
Leaves(c, pc) == cyc[c].pc = pc /\ cyc'[c].pc # pc

\* C12: for a pending, unexpired payment without settlement identifier, a cycle
\* that sees a matching credit writes status processing; when the transfer has
\* succeeded it writes status completed together with the settlement
\* identifier; and when it has finished with the payment, the payment is in
\* payments:completed and not in payments:pending.
C12_HappyPath ==
    [][\A c \in Cycles :
          /\ \A p \in Payments :
                (Picked(c, p) /\ Unexpired(p) /\ CreditFor(c, p)
                    /\ payment[p].usdtTransactionId = 0)
                    => cyc'[c].pc = "wprocessing" /\ cyc'[c].cur = p
          /\ Leaves(c, "wprocessing")
                => /\ payment'[cyc[c].cur].status = "processing"
                   /\ cyc'[c].pc = "transfer"
          /\ (Leaves(c, "transfer") /\ cyc'[c].pc = "wcompleted")
                => transfers'[cyc[c].cur] = transfers[cyc[c].cur] + 1
          /\ Leaves(c, "wcompleted")
                => /\ payment'[cyc[c].cur].status = "completed"
                   /\ payment'[cyc[c].cur].usdtTransactionId = cyc[c].newId
                   /\ cyc[c].newId # 0
                   /\ cyc'[c].pc = "complete"
          /\ Leaves(c, "complete")
                => /\ cyc[c].cur \in completedSet'
                   /\ cyc[c].cur \notin pendingSet']_vars

\* A cycle has taken p1 through the whole path.
C12_Witness ==
    /\ payment["p1"].status = "completed"
    /\ payment["p1"].usdtTransactionId # 0
    /\ payment["p1"].transactionRef = "FT1"
    /\ transfers["p1"] = 1
    /\ "p1" \in completedSet /\ "p1" \notin pendingSet
    /\ \A c \in Cycles : cyc[c].pc = "idle"

\* C13: when processPayment reads a pending, unexpired payment and no credit of
\* the cycle satisfies the matching predicate, the cycle goes on to the next
\* payment: status and fields of the payment, its membership of the pending,
\* completed and expiry indices are unchanged and no transfer is invoked.
C13_NoMatchUntouched ==
    [][\A p \in Payments :
          (Picked(1, p) /\ faults' = faults /\ Unexpired(p) /\ ~CreditFor(1, p))
              => /\ cyc'[1].pc \in {"idle", "read"}
                 /\ cyc'[1].cur = NoPayment
                 /\ payment'[p] = payment[p]
                 /\ (p \in pendingSet') = (p \in pendingSet)
                 /\ (p \in completedSet') = (p \in completedSet)
                 /\ (p \in expirySet') = (p \in expirySet)
                 /\ transfers' = transfers]_vars

\* The cycle has passed over p1, whose only memo-bearing credit is 1200 short, and
\* is about to read p2.
C13_Witness ==
    /\ cyc[1].pc = "read" /\ cyc[1].queue = {"p2"}
    /\ faults = 0
    /\ Unexpired("p1") /\ "p1" \in pendingSet /\ "p1" \in expirySet
    /\ payment["p1"].transactionRef = "" /\ transfers["p1"] = 0
    /\ ~CreditFor(1, "p1")
    /\ \E i \in 1..Len(cyc[1].txs) :
          /\ Includes(cyc[1].txs[i].transactionDesc, payment["p1"].memo)
          /\ ParseInt(cyc[1].txs[i].creditAmount).val = RequestedVND - 1200

\* C14: when the settlement step fails after a match, the status of the payment
\* becomes manual_review with the error stored, and from then on no cycle invokes
\* transferUsdt for that payment.
C14_ManualReviewNoRetry ==
    [][/\ \A c \in Cycles :
             Leaves(c, "wmanual")
                 => /\ payment'[cyc[c].cur].status = "manual_review"
                    /\ payment'[cyc[c].cur].error = cyc[c].err
                    /\ cyc[c].err \in SettlementOutcomes \ {"transferred"}
       /\ \A p \in Payments :
             (payment[p].status = "manual_review" \/ payment[p].error # "")
                 => transfers'[p] = transfers[p]]_vars

\* C15: when a matched pending payment already carries a settlement identifier,
\* the cycle invokes no transfer (it never enters processUsdtTransfer) and moves
\* the payment from processing straight to completed, the stored identifier
\* unchanged.
C15_IdempotencySafeguard ==
    [][\A c \in Cycles :
          /\ \A p \in Payments :
                (Picked(c, p) /\ Unexpired(p) /\ CreditFor(c, p)
                    /\ payment[p].usdtTransactionId # 0)
                    => /\ cyc'[c].pc = "wprocessing" /\ cyc'[c].cur = p
                       /\ cyc'[c].usdt = payment[p].usdtTransactionId
          /\ cyc[c].usdt # 0
                => /\ transfers' = transfers
                   /\ cyc'[c].pc \notin {"transfer", "wmanual"}
                   /\ payment'[cyc[c].cur].usdtTransactionId = cyc[c].usdt
                   /\ Leaves(c, "wprocessing")
                        => /\ payment'[cyc[c].cur].status = "processing"
                           /\ cyc'[c].pc = "wcompleted"
                   /\ Leaves(c, "wcompleted")
                        => /\ payment[cyc[c].cur].status = "processing"
                           /\ payment'[cyc[c].cur].status = "completed"]_vars

\* The payment that carried StoredId is completed without any transfer.
C15_Witness ==
    /\ payment["p1"].status = "completed"
    /\ payment["p1"].usdtTransactionId = StoredId
    /\ payment["p1"].transactionRef = "FT1"
    /\ transfers["p1"] = 0
    /\ "p1" \in completedSet /\ "p1" \notin pendingSet

\* The handlers never leave a settlement identifier on a pending payment.
PendingHasNoSettlementId ==
    \A p \in Payments :
        payment[p].status = "pending" => payment[p].usdtTransactionId = 0

\* C16: within one cycle, a failure while handling a payment (getPayment fails,
\* settlement fails) never ends the cycle while payments of the pending snapshot
\* are still to be read, takes none of them out of the snapshot, and is not
\* counted in consecutiveErrors.
C16_PerPaymentIsolation ==
    [][/\ (cyc[1].pc = "read" /\ cyc'[1] # cyc[1])
            => \E q \in cyc[1].queue :
                  /\ cyc'[1].queue = cyc[1].queue \ {q}
                  /\ cyc'[1].pc = "idle" => cyc[1].queue = {q}
       /\ (cyc[1].pc # "read" /\ cyc[1].queue # {})
            => cyc'[1].pc # "idle" /\ cyc'[1].queue = cyc[1].queue
       /\ cyc[1].failed # {}
            => /\ mon'.errors <= mon.errors
               /\ cyc'[1].pc = "idle" => mon'.errors = 0]_vars

\* After one failed cycle, p1 has failed in this cycle (its settlement threw or
\* its read failed) and the same cycle is completing p2.
C16_Witness ==
    /\ mon.errors = 1
    /\ cyc[1].failed = {"p1"}
    /\ cyc[1].pc = "complete" /\ cyc[1].cur = "p2"
    /\ payment["p1"].status \in {"manual_review", "error"}
    /\ payment["p2"].status = "completed"

\* A timer callback starts checkTransactions in this step.
CycleStarts == \E c \in Cycles : cyc[c].pc = "idle" /\ cyc'[c].pc = "fetch"

\* C17: consecutiveErrors grows by one on a failed cycle and is zero after a
\* cycle that returned; once it has reached MAX_CONSECUTIVE_ERRORS no cycle is
\* started any more, the callback that alerts cancels the timer, at most one
\* alert is ever sent, and no cycle starts after the timer is cancelled.
C17_PauseOnRepeatedFailure ==
    [][/\ \A c \in Cycles :
            /\ (cyc[c].pc \in {"fetch", "history"}
                    /\ cyc'[c].pc \in {"relogin", "alert"})
                    => mon'.errors = mon.errors + 1
            /\ (cyc[c].pc \in {"fetch", "history", "pending"}
                    /\ cyc'[c].pc = "idle")
                    => mon'.errors \in {0, mon.errors + 1}
            /\ Leaves(c, "alert") => mon'.paused
       /\ mon.errors >= MAX_CONSECUTIVE_ERRORS => ~CycleStarts
       /\ mon.paused => ~CycleStarts
       /\ mon'.alerts <= 1]_vars

\* C18: when the expiry job has finished with an id of its list, the id is no
\* longer in payments:expiry, whatever the job found and whichever of its ledger
\* writes failed (unless the ZREM itself is the command that failed).
C18_ReaperAlwaysRemoves ==
    [][(rp.cur # NoPayment /\ rp'.cur # rp.cur)
            => \/ rp.cur \notin expirySet'
               \/ rp.pc = "zrem" /\ faults' # faults]_vars

\* C19: a step of the expiry job changes the status of a payment only from
\* pending, and only to expired; it removes from payments:pending only the id
\* it is handling, and never changes payments:completed.
C19_ReaperOnlyPending ==
    [][rp' # rp
          => /\ \A p \in Payments :
                   payment'[p] # payment[p]
                      => /\ p = rp.cur
                         /\ payment[p].status = "pending"
                         /\ payment'[p].status = "expired"
             /\ pendingSet' \in {pendingSet, pendingSet \ {rp.cur}}
             /\ completedSet' = completedSet]_vars

\* C20: whenever transferUsdt is invoked for payment p, the ledger holds status
\* processing for p together with the reference of the matched transaction.
C20_TransferOnlyAfterProcessingRecorded ==
    [][\A p \in Payments :
          transfers'[p] # transfers[p]
              => /\ payment[p].status = "processing"
                 /\ payment[p].transactionRef # ""]_vars

\* The two lookups of the settlement step of cycle c, as the step that has just
\* run them left them: a recipient id was resolved, and the wallet answered a
\* balance that is a number not below the payment's amountUSDT.
ChecksPassed(c) ==
    /\ cyc'[c].recipient # ""
    /\ cyc'[c].wallet.ok
    /\ ~ParseInt(cyc'[c].wallet.balance).nan
    /\ ParseInt(cyc'[c].wallet.balance).val >= ParseInt(AmountUSDT).val

\* C21: transferUsdt is invoked only by a settlement step that resolved a
\* recipient and found the wallet balance >= the amount; a settlement step
\* without recipient, with a failed balance query or with too small a balance
\* invokes no transfer, and the payment is then written manual_review.
C21_TransferAfterChecks ==
    [][\A c \in Cycles :
          /\ Leaves(c, "transfer")
                => /\ transfers' # transfers => ChecksPassed(c)
                   /\ ~ChecksPassed(c)
                        => /\ transfers' = transfers
                           /\ cyc'[c].pc = "wmanual"
                           /\ cyc'[c].cur = cyc[c].cur
          /\ Leaves(c, "wmanual")
                => payment'[cyc[c].cur].status = "manual_review"]_vars

\* One invocation has found the balance too small and is about to write
\* manual_review; another has passed both checks and transferred.
C21_Witness ==
    /\ cyc[1].pc = "wmanual" /\ cyc[1].err = "insufficient"
    /\ cyc[1].wallet = [ok |-> TRUE, balance |-> <<"9">>]
    /\ cyc[2].pc = "wcompleted" /\ cyc[2].recipient = "r1"
    /\ cyc[2].wallet.balance = AmountUSDT
    /\ transfers["p1"] = 1

\* C22: a doLogin answer with a failing code other than GW283 ends login() with
\* the error carrying the code: no other login() invocation, no captcha
\* recognition and no request follow in that call, and sessionId is unchanged;
\* sessionId is only ever written on an ok answer of doLogin.
C22_LoginFailsWithoutRetry ==
    [][/\ \A k \in Callers :
            (call[k].pc = "dologin" /\ call'[k].pc # "dologin"
                    /\ call'[k].last = "other")
                => /\ call'[k].pc = "idle"
                   /\ call'[k].result = "login_error"
                   /\ call'[k].attempts = call[k].attempts
                   /\ call'[k].ocr = call[k].ocr
                   /\ call'[k].sends = call[k].sends
                   /\ sessionId' = sessionId
       /\ sessionId' # sessionId
            => \E k \in Callers :
                  call[k].pc = "dologin" /\ call'[k].last = "ok"]_vars

\* The monitor's login() has failed with a coded error while the instance holds
\* the session an earlier login stored.
C22_Witness ==
    /\ call[1].op = "login" /\ call[1].pc = "idle"
    /\ call[1].last = "other" /\ call[1].result = "login_error"
    /\ call[1].attempts = 1
    /\ sessionId = 1

\* C23: recognizeCaptcha is asked once for each captcha image; when it answers
\* null no doLogin is posted and login() starts again with a new challenge;
\* every doLogin is posted with a solved captcha text.
C23_NullCaptchaRestartsLogin ==
    [][\A k \in Callers :
          /\ call'[k].pc = "dologin" => call'[k].captcha # ""
          /\ (call[k].pc = "captcha" /\ call'[k] # call[k])
                => /\ call[k].ocr = call[k].attempts - 1
                   /\ call'[k].ocr = call[k].ocr + 1
                   /\ call'[k].captcha = ""
                        => /\ call'[k].pc = "captcha"
                           /\ call'[k].attempts = call[k].attempts + 1
                   /\ call'[k].captcha # ""
                        => /\ call'[k].pc = "dologin"
                           /\ call'[k].attempts = call[k].attempts]_vars

\* The solver has answered null twice; login() is at its third challenge.
C23_Witness ==
    /\ call[1].pc = "captcha" /\ call[1].captcha = ""
    /\ call[1].attempts = 3 /\ call[1].ocr = 2
    /\ call[1].last = "none"

\* Caller k's mbRequest ends in this step with `result`, without another
\* login(), another request or a change of sessionId.
EndsAt(k, result) ==
    /\ call'[k].pc = "idle"
    /\ call'[k].result = result
    /\ call'[k].attempts = call[k].attempts
    /\ call'[k].relogins = call[k].relogins
    /\ call'[k].sends = call[k].sends
    /\ sessionId' = sessionId

\* C24: a response that is malformed (a body that is not JSON, or an empty
\* one) or has no result object makes mbRequest return false, and a response
\* with a failing code other than GW200 makes it throw the error with the code;
\* in both cases without login, retry or change of sessionId.
C24_SoftFailureOnMalformed ==
    [][\A k \in Callers :
          (call[k].pc = "response" /\ call'[k] # call[k])
              => /\ call'[k].last \in {"unparsable", "empty", "no_result"}
                        => EndsAt(k, "false")
                 /\ call'[k].last = "other" => EndsAt(k, "request_error")]_vars

\* C25: every request is posted with the session id the instance holds, which
\* is set; an mbRequest that finds no session starts with login() and posts
\* nothing before it; when that login() fails the request is never posted and
\* the login error is what the caller gets.
C25_NoRequestWithoutSession ==
    [][\A k \in Callers :
          /\ (call[k].pc # "response" /\ call'[k].pc = "response")
                => /\ sessionId' # 0
                   /\ call'[k].sent = sessionId'
          /\ (call[k].pc = "idle" /\ call'[k].pc # "idle"
                    /\ call'[k].op = "request" /\ sessionId = 0)
                => /\ call'[k].pc = "captcha"
                   /\ call'[k].sends = 0
          /\ (call[k].op = "request" /\ call[k].pc = "dologin"
                    /\ call'[k].pc # "dologin"
                    /\ call'[k].last \notin {"ok", "GW283"})
                => /\ call'[k].pc = "idle"
                   /\ call'[k].result \in {"login_error", "login_unknown"}
                   /\ call'[k].sends = call[k].sends]_vars

\* One mbRequest found no session, logged in and has posted its request with
\* the new session; another found no session, its login failed and it returned
\* the error without posting anything.
C25_Witness ==
    /\ call[1].op = "request" /\ call[1].pc = "response"
    /\ call[1].attempts = 1 /\ call[1].sends = 1 /\ call[1].sent = sessionId
    /\ call[2].op = "request" /\ call[2].pc = "idle"
    /\ call[2].result = "login_error" /\ call[2].sends = 0

\* C26: while the clock is outside the operating hours (Vietnam hour, that is
\* (UTC hour + 7) mod 24, not in 9..23) no tick starts a cycle, so a tick
\* changes nothing; while it is inside, a tick of a running timer starts one.
C26_NoCycleOutsideOperatingHours ==
    [][/\ (VietnamHours(UTCHour(now)) \notin 9..23) => ~CycleStarts
       /\ (VietnamHours(UTCHour(now)) \in 9..23 /\ ~mon.paused
                /\ cyc[1].pc = "idle")
            => ENABLED (NextHours /\ cyc'[1].pc = "fetch")
      ]_vars

\* At 02:00 UTC (09:00 in Vietnam) a cycle has been started; the hours before
\* it, 00:00 and 01:00 UTC, are outside the window.
C26_Witness ==
    /\ now = 2
    /\ cyc[1].pc = "fetch"
    /\ VietnamHours(UTCHour(now)) = 9
    /\ mon.errors = 0

\* C27: a cycle whose getBalance gave no data, or a list without the monitored
\* account, ends there as a failed cycle: consecutiveErrors grows by one, no
\* history is requested, and the ledger is neither read nor written.
C27_NoBalanceIsCycleFailure ==
    [][(cyc[1].pc = "fetch" /\ cyc'[1].pc \notin {"fetch", "history"})
          => /\ mon'.errors = mon.errors + 1
             /\ cyc'[1].pc \in {"idle", "relogin", "alert"}
             /\ cyc'[1].txs = <<>> /\ cyc'[1].queue = {}
             /\ cyc'[1].cur = NoPayment
             /\ UNCHANGED <<ledgerVars, transfers, faults>>]_vars

\* A cycle has failed once and returned while p1, whose credit is in the
\* bank's history, is still pending and untouched.
C27_Witness ==
    /\ mon.errors = 1 /\ cyc[1].pc = "idle"
    /\ payment["p1"].status = "pending" /\ payment["p1"].memo = <<"1", "2">>
    /\ pendingSet = {"p1"}
    /\ Len(bankTxs) > 0 /\ FirstMatch(CreditTransactions(bankTxs), <<"1", "2">>,
                                       RequestedVND) # 0
    /\ transfers["p1"] = 0 /\ faults = 0

\* C28: a cycle failure whose error carries GW200 is counted and followed by
\* one bankService.login(). When the login succeeds (a new session id is
\* stored) consecutiveErrors is 0 and the callback returns; when it fails the
\* counter keeps its value and the callback goes on to the pause check, which
\* alerts exactly when the counter is at MAX_CONSECUTIVE_ERRORS or more. A
\* failed cycle without GW200 does not log in.
C28_ForcedReloginOnSessionExpiry ==
    [][\A c \in Cycles :
          /\ (cyc[c].pc \in {"fetch", "history"} /\ cyc'[c].pc = "relogin")
                => mon'.errors = mon.errors + 1 /\ sessionId' = sessionId
          /\ Leaves(c, "relogin")
                => /\ cyc'[c].pc \in {"idle", "alert"}
                   /\ sessionId' # sessionId
                        => mon'.errors = 0 /\ cyc'[c].pc = "idle"
                   /\ sessionId' = sessionId
                        => /\ mon'.errors = mon.errors
                           /\ cyc'[c].pc = "alert" <=> mon.errors >= 5
          /\ (cyc[c].pc \in {"fetch", "history"} /\ mon'.errors = mon.errors + 1
                    /\ cyc'[c].pc # "relogin")
                => sessionId' = sessionId]_vars

\* The forced login has succeeded once: the instance holds the new session,
\* the counter is 0 and the timer is running.
C28_Witness ==
    /\ sessionId = 1 /\ serverSession = 1
    /\ mon.errors = 0 /\ ~mon.paused
    /\ \A c \in Cycles : cyc[c].pc = "idle"

\* Entry r of the bank's answer is a credit that carries the payment's memo with
\* an amount within 1000 of the requested amount.
Qualifies(r) ==
    /\ mIn.entries[r].credit > 0
    /\ Includes(mIn.entries[r].desc, mIn.memo)
    /\ mIn.entries[r].credit - RequestedVND <= 1000
    /\ RequestedVND - mIn.entries[r].credit <= 1000

\* The cycle scans entry r before entry q: r is more recent, or they have the
\* same date and r comes first in the bank's answer.
ScannedBefore(r, q) ==
    \/ mIn.entries[r].date > mIn.entries[q].date
    \/ mIn.entries[r].date = mIn.entries[q].date /\ r < q

\* C29: the transaction found for the payment is the qualifying credit that
\* comes first in the cycle's scan order (most recent first, then the order of
\* the bank's answer); every other qualifying credit comes after it, whatever
\* its amount; and none is found exactly when none qualifies.
C29_FirstMatchWins ==
    mOut.done =>
        IF \E r \in 1..Len(mIn.entries) : Qualifies(r)
        THEN /\ mOut.found \in 1..Len(mOut.credit)
             /\ LET r == mOut.credit[mOut.found].refNo
                IN  /\ Qualifies(r)
                    /\ \A q \in 1..Len(mIn.entries) :
                          (q # r /\ Qualifies(q)) => ScannedBefore(r, q)
        ELSE mOut.found = 0

\* Two qualifying credits: the one found is 1000 over the requested amount and
\* more recent; the one passed over has exactly the requested amount.
C29_Witness ==
    /\ mOut.done /\ Len(mIn.entries) = 2 /\ mOut.found = 1
    /\ \A r \in 1..2 : Qualifies(r)
    /\ LET r == mOut.credit[1].refNo
           q == mOut.credit[2].refNo
       IN  /\ mIn.entries[r].credit = RequestedVND + 1000
           /\ mIn.entries[q].credit = RequestedVND
           /\ mIn.entries[r].date > mIn.entries[q].date
           /\ r = 2

(***************************************************************************)
(* Who changes a payment record once it exists.                            *)
(***************************************************************************)
StatusChanged(p) ==
    payment[p].status # "none" /\ payment'[p].status # payment[p].status

\* C30: a payment record is never deleted from the ledger, and once created
\* its status is changed only by a step of the reconciliation engine or of the
\* expiry reaper.
C30_OnlyEngineAndReaperChangeStatus ==
    [][\A p \in Payments :
          /\ payment[p].status # "none" => payment'[p].status # "none"
          /\ StatusChanged(p) => (cyc' # cyc \/ rp' # rp)]_vars

\* C30 as the code has it: a payment record is never deleted, and once created
\* its status is changed only by a step of the reconciliation engine, of the
\* expiry reaper, or of the owner's cancel_payment action, which sets canceled.
C30_StatusChangedByEngineReaperOrCancel ==
    [][\A p \in Payments :
          /\ payment[p].status # "none" => payment'[p].status # "none"
          /\ StatusChanged(p) =>
                \/ cyc' # cyc
                \/ rp' # rp
                \/ /\ cn.pc = "hset" /\ cn'.pc = "srem" /\ cn.cur = p
                   /\ payment[p].userId = cn.user
                   /\ payment'[p].status = "canceled"]_vars

\* The owner's cancel has just written canceled over a record that still
\* exists, while the engine and the reaper are at rest.
C30_Witness ==
    /\ cn.pc = "srem" /\ cn.cur = "p1"
    /\ payment["p1"].status = "canceled"
    /\ payment["p1"].userId = cn.user
    /\ \A c \in Cycles : cyc[c].pc = "idle"
    /\ rp.pc = "idle"

(***************************************************************************)
(* The indexes payments:pending and payments:completed.                    *)
(***************************************************************************)
\* A cycle, the sweep or a cancel has payment p in hand or still in its list.
InHand(p) ==
    \/ \E c \in Cycles :
          cyc[c].pc # "idle" /\ (cyc[c].cur = p \/ p \in cyc[c].queue)
    \/ rp.pc # "idle" /\ (rp.cur = p \/ p \in rp.queue)
    \/ cn.pc # "idle" /\ cn.cur = p

\* C31: whenever no cycle, sweep or cancel is in the middle of handling a
\* payment, the payment is in payments:pending only if its status is pending.
C31_PendingIndexConsistent ==
    \A p \in Payments : (~InHand(p) /\ p \in pendingSet) => payment[p].status = "pending"

\* C32: every id in payments:completed has status completed and is not in
\* payments:pending, whatever the interleaving of cycles, sweeps and cancels.
C32_CompletedIndexConsistent ==
    \A p \in completedSet : payment[p].status = "completed" /\ p \notin pendingSet

\* C33: a payment whose status is completed carries a settlement identifier
\* (usdtTransactionId), and that identifier is the one of a transfer that was
\* made for this payment.
C33_CompletedImpliesSettled ==
    \A p \in Payments :
        payment[p].status = "completed" =>
            /\ payment[p].usdtTransactionId # 0
            /\ payment[p].usdtTransactionId \in 1..transfers[p]

\* Two overlapping cycles have both settled p1: the record is completed and
\* carries the identifier of the second transfer.
C33_Witness ==
    /\ payment["p1"].status = "completed"
    /\ transfers["p1"] = 2
    /\ payment["p1"].usdtTransactionId = 2
    /\ "p1" \in completedSet

(***************************************************************************)
(* One credit, one payment.                                                *)
(***************************************************************************)
\* C34: one bank credit (one refNo) is recorded as the matched transaction of,
\* and triggers settlement for, at most one payment, also when two pending
\* payments carry the same memo.
C34_OneTransactionOnePayment ==
    \A p, q \in Payments :
        (/\ p # q
         /\ payment[p].transactionRef # ""
         /\ payment[p].transactionRef = payment[q].transactionRef)
            => (transfers[p] = 0 \/ transfers[q] = 0)

(***************************************************************************)
(* Expiry found by the engine.                                             *)
(***************************************************************************)
\* The cycle has written expired for p after its own expiry check.
EngineExpired(p) == \E c \in Cycles : cyc[c].pc = "zrem" /\ cyc[c].cur = p

\* C35: a cycle that reads a pending payment past its expiresAt never matches
\* it or invokes settlement, whatever the credits in its list: it writes status
\* expired and removes the id from payments:expiry; and the owner is still sent
\* the expiry notification for that payment.
C35_EngineSideExpiry ==
    /\ [][\A c \in Cycles, p \in Payments :
            /\ (Picked(c, p) /\ payment[p].status = "pending"
                    /\ now > payment[p].expiresAt)
                  => (cyc'[c].pc = "wexpired" /\ cyc'[c].cur = p)
            /\ (cyc[c].pc = "wexpired" /\ cyc[c].cur = p /\ cyc'[c] # cyc[c])
                  => (payment'[p].status = "expired" /\ cyc'[c].pc = "zrem"
                        /\ transfers' = transfers)
            /\ (cyc[c].pc = "zrem" /\ cyc[c].cur = p /\ cyc'[c] # cyc[c])
                  => (p \notin expirySet' /\ transfers' = transfers)]_vars
    /\ \A p \in Payments : EngineExpired(p) ~> (<<"expired", p>> \in notices)

\* C36: with sweeps and cycles that keep running and a clock that passes
\* expiresAt, every pending payment eventually has another status, also when
\* one ledger write fails on the way.
C36_NoPaymentPendingForever ==
    \A p \in Payments :
        (payment[p].status = "pending" /\ payment[p].expiresAt < MaxTime)
            ~> (payment[p].status # "pending")

(***************************************************************************)
(* The payment-confirmed message.                                          *)
(***************************************************************************)
\* C37: the payment-confirmed message is sent to the owner of p only by a
\* cycle in which the status of p has become completed: at the moment it is
\* sent, the ledger holds status completed for p.
C37_ConfirmedOnlyAfterCompleted ==
    [][\A p \in Payments :
          (<<"confirmed", p>> \in notices' /\ <<"confirmed", p>> \notin notices)
              => payment[p].status = "completed"]_vars

(***************************************************************************)
(* The cancel_payment action.                                              *)
(***************************************************************************)
\* C38: a cancel request goes on to change the ledger only if the payment it
\* read exists, belongs to the requesting user and has status pending; it then
\* sets status canceled, removes the id from payments:pending, and clears the
\* user's activePayment pointer only if the pointer is this payment's id; it
\* changes nothing else of the ledger.
C38_CancelGuard ==
    [][cn' # cn =>
          LET p == cn.cur
              u == cn.user
          IN  /\ cn.pc = "idle" =>
                    /\ UNCHANGED ledgerVars
                    /\ cn'.pc = "hset" =>
                          /\ payment[cn'.cur].status = "pending"
                          /\ payment[cn'.cur].userId = cn'.user
              /\ cn.pc = "hset" =>
                    /\ payment' = [payment EXCEPT ![p].status = "canceled"]
                    /\ UNCHANGED <<pendingSet, completedSet, expirySet, activePayment>>
              /\ cn.pc = "srem" =>
                    /\ pendingSet' = pendingSet \ {p}
                    /\ UNCHANGED <<payment, completedSet, expirySet, activePayment>>
              /\ cn.pc = "get" => UNCHANGED ledgerVars
              /\ cn.pc = "del" =>
                    /\ activePayment[u] = p
                    /\ activePayment' = [activePayment EXCEPT ![u] = NoPayment]
                    /\ UNCHANGED <<payment, pendingSet, completedSet, expirySet>>]_vars

(***************************************************************************)
(* mbRequest after a session expiry.                                       *)
(***************************************************************************)
\* The step of call k is the re-login after a session-expired answer coming
\* back with ok, and the request going out again.
Resent(k) ==
    /\ call[k].pc = "dologin" /\ call[k].op = "request"
    /\ call[k].relogins > 0
    /\ call'[k].pc = "response"

\* C39: the request sent again after a session-expired answer and a successful
\* re-login carries the session id that this re-login stored, not the expired
\* one, and a reference id generated for this sending, with the path and body
\* of the original request.
C39_RetryUsesRenewedSession ==
    [][\A k \in Callers :
          Resent(k) =>
              /\ sessionId' = serverSession'
              /\ serverSession' = serverSession + 1
              /\ call'[k].sent = sessionId'
              /\ call'[k].sent # call[k].sent
              /\ call'[k].sends = call[k].sends + 1
              /\ call'[k].ref = <<"username", now>>
              /\ call'[k].sentData = call[k].sentData
              /\ call'[k].data = call[k].data]_vars

\* Caller 1 asked for the history with session 1, was answered session-expired,
\* logged in again and has sent the request again, later, with session 2.
C39_Witness ==
    /\ call[1].pc = "response" /\ call[1].relogins = 1
    /\ call[1].sends = 2 /\ call[1].sent = 2 /\ sessionId = 2
    /\ call[1].sentData = "getTransactionHistory"
    /\ call[1].ref = <<"username", 2>>

====
